---- MODULE Spec2Model ----
(***************************************************************************)
(* A model of clamwin_updater.py: one process that prepares the database   *)
(* directory, optionally rotates the existing definition files into the    *)
(* backup subdirectory, downloads the three definition files one after the *)
(* other, and exits with a status that tells whether all three succeeded.  *)
(* The file system and the server are the environment: every call that can *)
(* raise in the code (os.makedirs, os.remove, os.rename, urlopen, open,    *)
(* read, write) has a failing outcome here.                                *)
(***************************************************************************)
EXTENDS Integers, Sequences, FiniteSets

\* ---------------------------------------------------------------- bounds
\* Longest response body, in bytes.
MaxBody == 2

\* ------------------------------------------------------- program constants
\* response.read(8192): the most bytes one read returns.
CHUNK == 8192

\* DATABASE_URLS, in insertion order (the order of .keys() and .items()).
DATABASE_URLS == <<"main.cvd", "daily.cvd", "bytecode.cvd">>

total_count == Len(DATABASE_URLS)

Targets == {DATABASE_URLS[k] : k \in 1..total_count}

\* ------------------------------------------------------------ file system
\* A path holds no file, or a file with its bytes.
NoFile == [exists |-> FALSE, data |-> <<>>]
File(d) == [exists |-> TRUE, data |-> d]

\* The bytes of a definition file installed before the first run, and of one
\* an earlier run moved into the backup directory.
OldData == <<0>>
OlderData == <<0, 0>>

Min(a, b) == IF a < b THEN a ELSE b
Max(a, b) == IF a < b THEN b ELSE a

\* The response body the server holds for the k-th target: the bytes 1..n.
\* main.cvd is the longest (MaxBody bytes), each next file one byte shorter.
Body(n) == [k \in 1..n |-> k]
ServerBody(k) == Body(Max(0, MaxBody + 1 - k))

\* Names in the backup directory: a target's name, possibly with a suffix.
Suffixes == {"", ".1"}
BackupNames == Targets \X Suffixes

Take(s, n) == SubSeq(s, 1, n)
Drop(s, n) == SubSeq(s, n + 1, Len(s))
IsPrefix(p, s) == Len(p) <= Len(s) /\ Take(s, Len(p)) = p

VARIABLES
  dbExists,      \* os.path.exists(db_dir)
  files,         \* the target files in db_dir
  bdirExists,    \* os.path.exists(backup_dir)
  bfiles,        \* the files in backup_dir, by name
  pc,            \* where the process is
  backup,        \* update_database's backup argument (not args.no_backup)
  i,             \* position of the running for loop in DATABASE_URLS
  success_count, \* update_database's tally
  success,       \* update_database's return value
  exitCode,      \* the argument of sys.exit, -1 before it is called
  body,          \* the bytes of the response urlopen returned
  resp,          \* the bytes of that response not read yet
  \* history of the current run
  pre,           \* files when the run started
  prepared,      \* how the directory check ended
  rotated,       \* targets renamed into the backup directory
  rotErr,        \* targets whose rotation raised OSError
  removed,       \* old backups os.remove deleted, while the loop runs
  mkdirErr,      \* creating the backup directory raised
  log            \* the download_file calls that returned, in order

vars == <<dbExists, files, bdirExists, bfiles, pc, backup, i, success_count,
          success, exitCode, body, resp, pre, prepared, rotated,
          rotErr, removed, mkdirErr, log>>

fs == <<dbExists, files, bdirExists, bfiles>>
hist == <<pre, prepared, rotated, rotErr, removed, mkdirErr, log>>

NoBackups == [n \in BackupNames |-> NoFile]

Init ==
  /\ dbExists \in BOOLEAN
  /\ files \in [Targets -> {NoFile, File(OldData)}]
  /\ (~dbExists => files = [t \in Targets |-> NoFile])
  /\ bdirExists \in BOOLEAN
  /\ (bdirExists => dbExists)
  /\ bfiles \in [BackupNames -> {NoFile, File(OlderData)}]
  /\ \A n \in BackupNames : bfiles[n].exists => bdirExists /\ n[2] = ""
  /\ pc = "idle"
  /\ backup = TRUE
  /\ i = 1
  /\ success_count = 0
  /\ success = FALSE
  /\ exitCode = -1
  /\ body = <<>>
  /\ resp = <<>>
  /\ pre = files
  /\ prepared = "none"
  /\ rotated = {}
  /\ rotErr = {}
  /\ removed = {}
  /\ mkdirErr = FALSE
  /\ log = <<>>

\* ------------------------------------------------------------------ main
\* main(): parse the arguments and call update_database(args.db_dir,
\* backup=not args.no_backup).
main(no_backup) ==
  /\ pc = "idle"
  /\ backup' = ~no_backup
  /\ pc' = "prepare"
  /\ UNCHANGED <<fs, i, success_count, success, exitCode, body, resp, hist>>

\* ------------------------------------------------------- update_database
\* A variant that runs the backup step whatever the flag says.
AfterPrepare_always == "backup"

AfterPrepare == IF backup THEN "backup" ELSE "urlopen"

\* if not os.path.exists(db_dir): false, the directory is there.
prepare_exists ==
  /\ pc = "prepare"
  /\ dbExists
  /\ pc' = AfterPrepare
  /\ prepared' = "existed"
  /\ UNCHANGED <<fs, backup, i, success_count, success, exitCode, body, resp, pre, rotated, rotErr, removed, mkdirErr, log>>

\* A variant that reports the directory created without creating it.
prepare_create_skip ==
  /\ pc = "prepare"
  /\ ~dbExists
  /\ pc' = AfterPrepare
  /\ prepared' = "created"
  /\ UNCHANGED <<fs, backup, i, success_count, success, exitCode, body, resp,
                 pre, rotated, rotErr, removed, mkdirErr, log>>

\* os.makedirs(db_dir) succeeds.
prepare_create ==
  /\ pc = "prepare"
  /\ ~dbExists
  /\ dbExists' = TRUE
  /\ pc' = AfterPrepare
  /\ prepared' = "created"
  /\ UNCHANGED <<files, bdirExists, bfiles, backup, i, success_count, success,
                 exitCode, body, resp, pre, rotated, rotErr, removed,
                 mkdirErr, log>>

\* A variant without the return: the run goes on after the failure.
prepare_fail_continue ==
  /\ pc = "prepare"
  /\ ~dbExists
  /\ pc' = AfterPrepare
  /\ prepared' = "failed"
  /\ UNCHANGED <<fs, backup, i, success_count, success, exitCode, body, resp,
                 pre, rotated, rotErr, removed, mkdirErr, log>>

\* os.makedirs(db_dir) raises: return False.
prepare_fail ==
  /\ pc = "prepare"
  /\ ~dbExists
  /\ success' = FALSE
  /\ pc' = "exit"
  /\ prepared' = "failed"
  /\ UNCHANGED <<fs, backup, i, success_count, exitCode, body, resp, pre, rotated, rotErr, removed, mkdirErr, log>>

\* ------------------------------------------------- backup_existing_files
\* A variant that keeps the old backup and stores the new one beside it.
backup_path_numbered(filename) ==
  IF bfiles[<<filename, "">>].exists THEN <<filename, ".1">>
                                     ELSE <<filename, "">>

\* backup_path = os.path.join(backup_dir, filename)
backup_path(filename) == <<filename, "">>

\* The for loop over DATABASE_URLS.keys(): the file is not there.
backup_skip ==
  /\ pc = "backup"
  /\ i <= total_count
  /\ ~files[DATABASE_URLS[i]].exists
  /\ i' = i + 1
  /\ UNCHANGED <<fs, pc, backup, success_count, success, exitCode, body, resp,
                 hist>>

\* os.makedirs(backup_dir) raises: the outer except returns True, and the
\* loop is left.
backup_mkdir_fail ==
  /\ pc = "backup"
  /\ i <= total_count
  /\ files[DATABASE_URLS[i]].exists
  /\ ~bdirExists
  /\ mkdirErr' = TRUE
  /\ removed' = {}
  /\ pc' = "urlopen"
  /\ i' = 1
  /\ UNCHANGED <<fs, backup, success_count, success, exitCode, body, resp,
                 pre, prepared, rotated, rotErr, log>>

\* The steps of one iteration that every outcome shares: the file is there
\* and the loop goes on to the next filename.
backup_next ==
  /\ pc = "backup"
  /\ i <= total_count
  /\ files[DATABASE_URLS[i]].exists
  /\ i' = i + 1
  /\ UNCHANGED <<dbExists, pc, backup, success_count, success, exitCode, body,
                 resp, pre, prepared, mkdirErr, log>>

\* A variant that, when a backup of the name is already there, keeps it and
\* removes the current file instead.
backup_rotate_keep ==
  /\ backup_next
  /\ bdirExists' = TRUE
  /\ bfiles' = IF bfiles[backup_path(DATABASE_URLS[i])].exists THEN bfiles
                ELSE [bfiles EXCEPT ![backup_path(DATABASE_URLS[i])] =
                        files[DATABASE_URLS[i]]]
  /\ files' = [files EXCEPT ![DATABASE_URLS[i]] = NoFile]
  /\ rotated' = rotated \cup {DATABASE_URLS[i]}
  /\ UNCHANGED <<rotErr, removed>>

\* The backup directory is there or is created, the old backup (if any) is
\* removed and the file is renamed into the backup directory.
backup_rotate ==
  /\ backup_next
  /\ bdirExists' = TRUE
  /\ bfiles' = [bfiles EXCEPT ![backup_path(DATABASE_URLS[i])] =
                  files[DATABASE_URLS[i]]]
  /\ files' = [files EXCEPT ![DATABASE_URLS[i]] = NoFile]
  /\ rotated' = rotated \cup {DATABASE_URLS[i]}
  /\ removed' = IF bfiles[backup_path(DATABASE_URLS[i])].exists
                 THEN removed \cup {DATABASE_URLS[i]} ELSE removed
  /\ UNCHANGED rotErr

\* os.remove(backup_path) raises OSError: a warning, and the loop goes on.
backup_remove_fail ==
  /\ backup_next
  /\ bfiles[backup_path(DATABASE_URLS[i])].exists
  /\ bdirExists' = TRUE
  /\ rotErr' = rotErr \cup {DATABASE_URLS[i]}
  /\ UNCHANGED <<files, bfiles, rotated, removed>>

\* A variant whose OSError is not caught in the loop: the outer except
\* returns, and the files after this one are not rotated.
backup_rename_fail_abort ==
  /\ pc = "backup"
  /\ i <= total_count
  /\ files[DATABASE_URLS[i]].exists
  /\ bdirExists' = TRUE
  /\ bfiles' = [bfiles EXCEPT ![backup_path(DATABASE_URLS[i])] = NoFile]
  /\ rotErr' = rotErr \cup {DATABASE_URLS[i]}
  /\ removed' = {}
  /\ pc' = "urlopen"
  /\ i' = 1
  /\ UNCHANGED <<dbExists, files, backup, success_count, success, exitCode,
                 body, resp, pre, prepared, rotated, mkdirErr, log>>

\* os.rename(filepath, backup_path) raises OSError after the old backup (if
\* any) was removed: a warning, and the loop goes on.
backup_rename_fail ==
  /\ backup_next
  /\ bdirExists' = TRUE
  /\ bfiles' = [bfiles EXCEPT ![backup_path(DATABASE_URLS[i])] = NoFile]
  /\ rotErr' = rotErr \cup {DATABASE_URLS[i]}
  /\ removed' = IF bfiles[backup_path(DATABASE_URLS[i])].exists
                 THEN removed \cup {DATABASE_URLS[i]} ELSE removed
  /\ UNCHANGED <<files, rotated>>

\* The loop is over: return True.
backup_done ==
  /\ pc = "backup"
  /\ i > total_count
  /\ pc' = "urlopen"
  /\ i' = 1
  /\ removed' = {}
  /\ UNCHANGED <<fs, backup, success_count, success, exitCode, body, resp,
                 pre, prepared, rotated, rotErr, mkdirErr, log>>

\* ---------------------------------------------------------- download_file
\* HTTP status codes of an HTTPError; 403 prints the note about the CDN.
HttpErrorCodes == {403, 404}

\* A variant whose loop stops at the first failed download.
download_return_abort(ok, opened) ==
  /\ log' = Append(log, [target |-> DATABASE_URLS[i], ok |-> ok,
                         opened |-> opened,
                         body |-> IF opened THEN body ELSE <<>>])
  /\ success_count' = IF ok THEN success_count + 1 ELSE success_count
  /\ i' = IF ok THEN i + 1 ELSE total_count + 1
  /\ pc' = IF ok /\ i < total_count THEN "urlopen" ELSE "summary"
  /\ body' = <<>>
  /\ resp' = <<>>
  /\ UNCHANGED <<backup, success, exitCode, pre, prepared, rotated,
                 rotErr, removed, mkdirErr>>

\* What download_file's return does to its caller's loop (lines 160-164):
\* success_count += 1 on True, and the loop goes to the next target, or is
\* over after the last one.
download_return(ok, opened) ==
  /\ log' = Append(log, [target |-> DATABASE_URLS[i], ok |-> ok,
                         opened |-> opened,
                         body |-> IF opened THEN body ELSE <<>>])
  /\ success_count' = IF ok THEN success_count + 1 ELSE success_count
  /\ i' = i + 1
  /\ pc' = IF i < total_count THEN "urlopen" ELSE "summary"
  /\ body' = <<>>
  /\ resp' = <<>>
  /\ UNCHANGED <<backup, success, exitCode, pre, prepared, rotated,
                 rotErr, removed, mkdirErr>>

\* urlopen raises HTTPError: return False.
urlopen_http_error ==
  /\ pc = "urlopen"
  /\ i <= total_count
  /\ \E code \in HttpErrorCodes : download_return(FALSE, FALSE)
  /\ UNCHANGED fs

\* urlopen raises URLError (DNS, connection, timeout): return False.
urlopen_url_error ==
  /\ pc = "urlopen"
  /\ i <= total_count
  /\ download_return(FALSE, FALSE)
  /\ UNCHANGED fs

\* urlopen answers with a response that holds the target's body.
urlopen_ok ==
  /\ pc = "urlopen"
  /\ i <= total_count
  /\ body' = ServerBody(i)
  /\ resp' = ServerBody(i)
  /\ pc' = "open"
  /\ UNCHANGED <<fs, backup, i, success_count, success, exitCode, hist>>

\* open(destination, 'wb'): the file is created or truncated.
truncated(f) == File(<<>>)

open_ok ==
  /\ pc = "open"
  /\ dbExists
  /\ files' = [files EXCEPT ![DATABASE_URLS[i]] = truncated(@)]
  /\ pc' = "stream"
  /\ UNCHANGED <<dbExists, bdirExists, bfiles, backup, i, success_count,
                 success, exitCode, body, resp, hist>>

\* The content-length header does not parse, or open raises (the directory is
\* missing, the file is locked): except Exception returns False with the
\* file untouched.
open_fail ==
  /\ pc = "open"
  /\ download_return(FALSE, FALSE)
  /\ UNCHANGED fs

\* A variant that keeps only the last chunk.
written_last(data, chunk) == chunk

\* f.write(chunk): the chunk is appended to what was written.
written(data, chunk) == data \o chunk

\* chunk = response.read(8192) returns n bytes, at most 8192; f.write(chunk).
read_write(n) ==
  /\ pc = "stream"
  /\ n \in 1..Min(CHUNK, Len(resp))
  /\ files' = [files EXCEPT ![DATABASE_URLS[i]] =
                 File(written(@.data, Take(resp, n)))]
  /\ resp' = Drop(resp, n)
  /\ UNCHANGED <<dbExists, bdirExists, bfiles, pc, backup, i, success_count,
                 success, exitCode, body, hist>>

\* A variant that removes the partial file when the transfer fails.
stream_fail_cleanup ==
  /\ pc = "stream"
  /\ download_return(FALSE, TRUE)
  /\ files' = [files EXCEPT ![DATABASE_URLS[i]] = NoFile]
  /\ UNCHANGED <<dbExists, bdirExists, bfiles>>

\* read or write raises (timeout, connection reset, disk full): the file is
\* closed with what was written and except returns False.
stream_fail ==
  /\ pc = "stream"
  /\ download_return(FALSE, TRUE)
  /\ UNCHANGED fs

\* read returns b'': break, the file is closed, return True.
read_eof ==
  /\ pc = "stream"
  /\ resp = <<>>
  /\ download_return(TRUE, TRUE)
  /\ UNCHANGED fs

\* ------------------------------------------- update_database, after the loop
\* A variant that is content with one downloaded file.
all_downloaded_any == success_count > 0

\* if success_count == total_count: return True, else: return False
all_downloaded == success_count = total_count

summary ==
  /\ pc = "summary"
  /\ success' = all_downloaded
  /\ pc' = "exit"
  /\ UNCHANGED <<fs, backup, i, success_count, exitCode, body, resp, hist>>

\* sys.exit(0 if success else 1)
exit_status(ok) == IF ok THEN 0 ELSE 1

exit ==
  /\ pc = "exit"
  /\ exitCode' = exit_status(success)
  /\ pc' = "done"
  /\ UNCHANGED <<fs, backup, i, success_count, success, body, resp, hist>>

Next ==
  \/ \E no_backup \in BOOLEAN : main(no_backup)
  \/ prepare_exists
  \/ prepare_create
  \/ prepare_fail
  \/ backup_skip
  \/ backup_mkdir_fail
  \/ backup_rotate
  \/ backup_remove_fail
  \/ backup_rename_fail
  \/ backup_done
  \/ urlopen_http_error
  \/ urlopen_url_error
  \/ urlopen_ok
  \/ open_ok
  \/ open_fail
  \/ \E n \in 1..MaxBody : read_write(n)
  \/ stream_fail
  \/ read_eof
  \/ summary
  \/ exit

Spec == Init /\ [][Next]_vars

\* The program is started again after it has exited: a new process, whose
\* variables start afresh, on the file system the last run left.
restart ==
  /\ pc = "done"
  /\ pc' = "idle"
  /\ i' = 1
  /\ success_count' = 0
  /\ success' = FALSE
  /\ exitCode' = -1
  /\ pre' = files
  /\ prepared' = "none"
  /\ rotated' = {}
  /\ rotErr' = {}
  /\ mkdirErr' = FALSE
  /\ log' = <<>>
  /\ UNCHANGED <<fs, backup, body, resp, removed>>

\* Any number of consecutive runs, all with backups enabled.
NextRuns ==
  \/ Next /\ backup'
  \/ restart

\* A new installation: no definition file and no backup yet.
InitFresh ==
  /\ Init
  /\ \A t \in Targets : ~files[t].exists
  /\ ~bdirExists
  /\ bfiles = NoBackups

SpecRuns == InitFresh /\ [][NextRuns]_vars

\* ================================================================ claims
\* Vocabulary of the claims.
Index(t) == CHOOSE k \in 1..total_count : DATABASE_URLS[k] = t
Established == prepared \in {"existed", "created"}
FetchPcs == {"urlopen", "open", "stream"}
AfterLoopPcs == {"summary", "exit", "done"}
\* The download_file call for t has returned, and what it returned.
Returned(t) == Index(t) <= Len(log)
Entry(t) == log[Index(t)]
\* download_file has opened (and so truncated) the destination of t.
Opened(t) ==
  \/ Returned(t) /\ Entry(t).opened
  \/ pc = "stream" /\ DATABASE_URLS[i] = t
\* The files of the backup directory that are backups of t.
Copies(t) == {n \in BackupNames : n[1] = t /\ bfiles[n].exists}
\* The rotation of t met no error.
RotationClean(t) == t \notin rotErr /\ ~mkdirErr

\* C1: the exit status is 0 exactly when the directory was established and
\* all three downloads succeeded, and 1 in every other case.
C1_ExitStatus ==
  pc = "done" =>
    exitCode = IF /\ Established
                  /\ \A t \in Targets :
                       \E k \in 1..Len(log) : log[k].target = t /\ log[k].ok
               THEN 0 ELSE 1

C1_Witness ==
  /\ pc = "done"
  /\ Established
  /\ exitCode = 1
  /\ Cardinality({k \in 1..Len(log) : log[k].ok}) = total_count - 1

\* C2 as stated: after a run with backups, every target that was there before
\* the run has exactly one backup, which holds the pre-run content.
C2_Original ==
  pc = "done" /\ backup =>
    \A t \in Targets :
      pre[t].exists =>
        Copies(t) = {backup_path(t)} /\ bfiles[backup_path(t)] = pre[t]

\* C2, amended: after a run with backups, every target that was there before
\* the run and whose rotation met no error (creating the backup directory,
\* removing the old backup, renaming) has exactly one backup, which holds
\* the pre-run content, whatever the downloads did.
C2_BackupHoldsPreRun ==
  pc = "done" /\ backup =>
    \A t \in Targets :
      pre[t].exists /\ RotationClean(t) =>
        Copies(t) = {backup_path(t)} /\ bfiles[backup_path(t)] = pre[t]

C2_Witness ==
  /\ pc = "done"
  /\ backup
  /\ \E t \in Targets :
       /\ pre[t].exists /\ RotationClean(t)
       /\ bfiles[backup_path(t)] = pre[t]
       /\ Returned(t) /\ Entry(t).ok
       /\ files[t] # pre[t]

\* C3: once the directory is established the three targets are attempted
\* once each, in the order of DATABASE_URLS, whatever the earlier downloads
\* did; a failed one is counted as a failure, is not tried again, does not
\* stop the loop, and makes the exit status 1.
C3_EachTargetOnceInOrder ==
  /\ Len(log) <= total_count
  /\ \A k \in 1..Len(log) : log[k].target = DATABASE_URLS[k]
  /\ success_count = Cardinality({k \in 1..Len(log) : log[k].ok})
  /\ (pc \in FetchPcs => i = Len(log) + 1)
  /\ (Established /\ pc \in AfterLoopPcs => Len(log) = total_count)
  /\ (pc = "done" /\ (\E k \in 1..Len(log) : ~log[k].ok) => exitCode = 1)

C3_Witness ==
  /\ pc = "done"
  /\ Len(log) = total_count
  /\ ~log[1].ok /\ ~log[2].ok /\ log[3].ok
  /\ ~log[1].opened /\ log[2].opened
  /\ exitCode = 1

\* C4: when the directory is missing and cannot be created the run ends with
\* status 1 at once: no rotation, no download, and nothing under the
\* destination path is created, moved or deleted.
C4_AbortBeforeAnything ==
  prepared = "failed" =>
    /\ pc \in {"exit", "done"}
    /\ ~success
    /\ (pc = "done" => exitCode = 1)
    /\ log = <<>> /\ body = <<>> /\ resp = <<>>
    /\ rotated = {} /\ rotErr = {} /\ ~mkdirErr
    /\ ~dbExists /\ ~bdirExists
    /\ files = pre /\ \A t \in Targets : ~files[t].exists
    /\ bfiles = NoBackups

C4_Witness == prepared = "failed" /\ pc = "done" /\ exitCode = 1

\* What the download of t has left at its destination in a run that did not
\* rotate it: the pre-run file until download_file opens the destination,
\* then the bytes written so far, and the whole body after a success.
InPlace(t) ==
  IF Opened(t)
  THEN /\ files[t].exists
       /\ IsPrefix(files[t].data, ServerBody(Index(t)))
       /\ (Returned(t) /\ Entry(t).ok => files[t].data = ServerBody(Index(t)))
  ELSE files[t] = pre[t]

\* C5 as stated: after a run with --no-backup nothing was rotated and every
\* target that was there before the run has been overwritten by its download.
C5_Original ==
  pc = "done" /\ ~backup /\ Established =>
    /\ rotated = {} /\ rotErr = {} /\ ~mkdirErr
    /\ \A t \in Targets : pre[t].exists => Returned(t) /\ Entry(t).opened

\* C5, amended: in a run with --no-backup the backup step is never entered:
\* the backup directory is not created and no entry of it is created,
\* replaced or removed; every target that was there before the run stays in
\* place, is overwritten in place (truncated and rewritten) once its download
\* opens the destination, and is left as it was when its download fails
\* before that (an HTTP or URL error, or a failure to open the file).
C5_NoBackup ==
  /\ [][~backup' => UNCHANGED <<bdirExists, bfiles>>]_vars
  /\ [](~backup /\ pc # "idle" =>
          /\ pc # "backup"
          /\ rotated = {} /\ rotErr = {} /\ removed = {} /\ ~mkdirErr
          /\ \A t \in Targets : pre[t].exists => InPlace(t))

C5_Witness ==
  /\ pc = "done"
  /\ ~backup
  /\ Len(log) = total_count
  /\ ~bdirExists
  /\ \E t, u \in Targets :
       /\ pre[t].exists /\ Entry(t).ok /\ files[t] = File(ServerBody(Index(t)))
       /\ pre[u].exists /\ ~Entry(u).opened /\ files[u] = pre[u]

\* C6: over any number of consecutive runs with backups enabled the backup
\* directory never holds more than one backup of a target: a rotation
\* replaces the backup of that name by the file that was at the destination.
C6_SingleBackupSlot ==
  \A t \in Targets :
    /\ Cardinality(Copies(t)) <= 1
    /\ (t \in rotated => Copies(t) = {backup_path(t)})

C6_Witness ==
  /\ pc = "backup"
  /\ \E t \in rotated \cap removed :
       /\ Copies(t) = {backup_path(t)}
       /\ bfiles[backup_path(t)] = pre[t]

\* C7: an error in the rotation of one target, or in creating the backup
\* directory, is skipped: the loop goes on to the other targets that are
\* there (each is rotated or meets its own error), backup_existing_files
\* returns, and the three downloads are attempted.
C7_RotationErrorsSkipped ==
  backup /\ Established =>
    /\ (pc = "backup" /\ ~mkdirErr =>
          \A k \in 1..(i - 1) :
            pre[DATABASE_URLS[k]].exists =>
              DATABASE_URLS[k] \in rotated \cup rotErr)
    /\ (pc \in FetchPcs \cup AfterLoopPcs /\ ~mkdirErr =>
          \A t \in Targets : pre[t].exists => t \in rotated \cup rotErr)
    /\ (mkdirErr => pc \in FetchPcs \cup AfterLoopPcs)
    /\ (pc \in AfterLoopPcs => Len(log) = total_count)

C7_Witness ==
  /\ pc = "done"
  /\ backup
  /\ Len(log) = total_count
  /\ \E u \in rotErr, t \in rotated : Index(u) < Index(t)

\* C8 as stated: at the end of a run each target is present with the body
\* downloaded for it, or its download failed and the path holds a prefix of
\* the body.
C8_Original ==
  pc = "done" /\ Established =>
    \A t \in Targets :
      /\ Returned(t)
      /\ \/ Entry(t).ok /\ files[t] = File(ServerBody(Index(t)))
         \/ /\ ~Entry(t).ok
            /\ files[t].exists
            /\ IsPrefix(files[t].data, ServerBody(Index(t)))

\* C8, amended: at the end of a run whose directory was established each
\* target is in one of three states: present with the whole body downloaded
\* for it; or its download failed after the destination was opened and the
\* path holds the prefix of the body written before the failure; or its
\* download failed before the destination was opened and the path is as the
\* backup step left it (absent when the file was rotated, else the pre-run
\* file, unchanged).
C8_DestinationAfterRun ==
  pc = "done" /\ Established =>
    \A t \in Targets :
      /\ Returned(t)
      /\ Entry(t).ok => files[t] = File(ServerBody(Index(t)))
      /\ ~Entry(t).ok /\ Entry(t).opened =>
           files[t].exists /\ IsPrefix(files[t].data, ServerBody(Index(t)))
      /\ ~Entry(t).opened =>
           ~Entry(t).ok
           /\ files[t] = IF t \in rotated THEN NoFile ELSE pre[t]

C8_Witness ==
  /\ pc = "done"
  /\ Len(log) = total_count
  /\ \E t, u \in Targets :
       /\ ~Entry(t).ok /\ Entry(t).opened
       /\ files[t].data # <<>> /\ files[t].data # ServerBody(Index(t))
       /\ ~Entry(u).opened /\ pre[u].exists /\ files[u] = pre[u]

\* C9: when download_file returns success the destination holds the response
\* body exactly; while it streams, what is written followed by what is still
\* to read is the body: the chunks are written in order from an empty file,
\* none dropped, doubled or reordered, and nothing of the old file is left.
C9_TransferFidelity ==
  /\ \A k \in 1..Len(log) :
       log[k].ok =>
         /\ log[k].opened
         /\ log[k].body = ServerBody(k)
         /\ files[log[k].target] = File(log[k].body)
  /\ (pc = "stream" =>
        /\ files[DATABASE_URLS[i]].exists
        /\ files[DATABASE_URLS[i]].data \o resp = body)

C9_Witness ==
  /\ Len(log) >= 1
  /\ log[1].ok
  /\ Len(log[1].body) >= 2
  /\ pre[log[1].target].exists
  /\ log[1].target \notin rotated
  /\ files[log[1].target] = File(log[1].body)

\* The steps between the phases of a run: each phase is left for a later one
\* only; a run whose directory cannot be created goes from prepare to exit.
PhaseStep ==
  \/ pc' = pc
  \/ pc = "idle" /\ pc' = "prepare"
  \/ pc = "prepare" /\ pc' = "backup" /\ backup /\ dbExists'
  \/ pc = "prepare" /\ pc' = "urlopen" /\ ~backup /\ dbExists'
  \/ pc = "prepare" /\ pc' = "exit" /\ ~dbExists'
  \/ pc = "backup" /\ pc' = "urlopen"
  \/ pc \in FetchPcs /\ pc' \in FetchPcs
  \/ pc \in FetchPcs /\ pc' = "summary" /\ Len(log') = total_count
  \/ pc = "summary" /\ pc' = "exit"
  \/ pc = "exit" /\ pc' = "done"

\* C10: a run goes through prepare, backup (only when enabled), the three
\* downloads, the summary and the exit in that order and never goes back; no
\* download starts before the directory exists; the backup directory changes
\* only in the backup step, which is over before the first download starts.
C10_LinearPhases ==
  /\ [][PhaseStep]_vars
  /\ [][bfiles' # bfiles \/ bdirExists' # bdirExists \/ rotated' # rotated =>
          pc = "backup" /\ log = <<>> /\ \A t \in Targets : ~Opened(t)]_vars
  /\ [](pc \in FetchPcs \cup {"summary"} \/ log # <<>> => dbExists)
  /\ [](pc = "backup" => log = <<>> /\ body = <<>> /\ dbExists)

C10_Witness ==
  /\ pc = "done"
  /\ backup
  /\ rotated # {}
  /\ Len(log) = total_count
  /\ \E t \in rotated : Entry(t).ok /\ bfiles[backup_path(t)] = pre[t]

====
